---------------------------- MODULE Spec2Model ----------------------------
(***************************************************************************)
(* Model of the crawl / consolidation core of the web-scraper:             *)
(*   src/app.py             product consolidation, job registry, progress  *)
(*   src/crawler_service.py link discovery, page dispatch                  *)
(*                                                                         *)
(* Python strings are modelled as sequences of one-character strings so    *)
(* that strip(), lower(), startswith() and slicing are computed, not       *)
(* assumed.  Python dicts with optional keys are functions whose DOMAIN is *)
(* the set of keys present.                                                *)
(***************************************************************************)
EXTENDS Integers, Sequences, FiniteSets, TLC

VARIABLES
    CRAWL_RESULTS,   \* app.py:24  crawl_id -> stored product list (partial map)
    CRAWL_PROGRESS,  \* app.py:25  crawl_id -> progress snapshot   (partial map)
    pc,              \* per job: position of its background thread
    job,             \* per job: locals of start_crawl / _crawl_in_background
    resp,            \* last response handed to a polling reader
    phase,           \* position of the function-level harness
    arg,             \* input of the function under examination
    ret              \* output of the function under examination

vars == <<CRAWL_RESULTS, CRAWL_PROGRESS, pc, job, resp, phase, arg, ret>>

-----------------------------------------------------------------------------
(* Bounds *)

MaxRaw == 3        \* longest raw record list handed to _clean_products
MaxLinks == 3      \* longest list of links reported by the fetcher
MaxBudget == 3     \* largest page budget examined for _discover_links

-----------------------------------------------------------------------------
(* Python string primitives *)

Min(a, b) == IF a < b THEN a ELSE b
Max(a, b) == IF a > b THEN a ELSE b

UpperCase == <<"A","B","C","D","E","F","G","H","I","J","K","L","M",
               "N","O","P","Q","R","S","T","U","V","W","X","Y","Z">>
LowerCase == <<"a","b","c","d","e","f","g","h","i","j","k","l","m",
               "n","o","p","q","r","s","t","u","v","w","x","y","z">>

LowerChar(c) ==
    IF \E i \in 1..26 : UpperCase[i] = c
    THEN LowerCase[CHOOSE i \in 1..26 : UpperCase[i] = c]
    ELSE c

\* str.lower()
Lower(s) == [i \in 1..Len(s) |-> LowerChar(s[i])]

IsSpace(c) == c \in {" ", "\t", "\n"}

RECURSIVE LStrip(_)
LStrip(s) == IF s # <<>> /\ IsSpace(Head(s)) THEN LStrip(Tail(s)) ELSE s

RECURSIVE RStrip(_)
RStrip(s) ==
    IF s # <<>> /\ IsSpace(s[Len(s)]) THEN RStrip(SubSeq(s, 1, Len(s) - 1)) ELSE s

\* str.strip()
Strip(s) == RStrip(LStrip(s))

\* str.startswith(prefix)
StartsWith(s, prefix) ==
    Len(s) >= Len(prefix) /\ SubSeq(s, 1, Len(prefix)) = prefix

\* s[n:] for n >= 0
SliceFrom(s, n) == SubSeq(s, Min(n, Len(s)) + 1, Len(s))

\* s[:n]; a negative n counts from the end, as Python slicing does
SliceTo(s, n) ==
    IF n >= 0 THEN SubSeq(s, 1, Min(n, Len(s)))
    ELSE SubSeq(s, 1, Max(Len(s) + n, 0))

\* Python `a or b` on strings / None: the first truthy operand
OrElse(a, b) == IF a # <<>> THEN a ELSE b

\* dict.get(key) or "": a missing key, None and "" all read as ""
Get(p, f) == IF f \in DOMAIN p THEN p[f] ELSE <<>>

\* set(list)
SeqToSet(q) == {q[i] : i \in 1..Len(q)}

\* a local assignment: e is evaluated once and F reads the value
Bind(e, F(_)) == CHOOSE r \in {F(v) : v \in {e}} : TRUE

RECURSIVE Rep(_, _)
Rep(c, n) == IF n = 0 THEN <<>> ELSE <<c>> \o Rep(c, n - 1)

-----------------------------------------------------------------------------
(* Product consolidation, src/app.py *)

PictureOf == <<"p","i","c","t","u","r","e"," ","o","f">>
PrefixLen == 10    \* normalized[10:]
KeyTrunc == 50     \* [:50]

_normalize_name(name) ==
    IF name = <<>> THEN <<>>
    ELSE Bind(Strip(name), LAMBDA normalized :
             Bind(IF StartsWith(Lower(normalized), PictureOf)
                  THEN Strip(SliceFrom(normalized, PrefixLen))
                  ELSE normalized,
                  LAMBDA stripped : Lower(stripped)))

\* the image expression shared by the scoring, filter and key code
ImageOf(p) == Strip(OrElse(Get(p, "image_url"), Get(p, "image")))

ScoreAssign(product) ==
    LET afterName == IF Strip(Get(product, "name")) # <<>> THEN 10 ELSE 0
        afterPrice == afterName + (IF Strip(Get(product, "price")) # <<>> THEN 5 ELSE 0)
        afterImage == IF ImageOf(product) # <<>> THEN 10 ELSE afterPrice
    IN  afterImage
      + (IF Strip(Get(product, "product_href")) # <<>> THEN 3 ELSE 0)
      + (IF Strip(Get(product, "description")) # <<>> THEN 2 ELSE 0)

_score_product_completeness(product) ==
    (IF Strip(Get(product, "name")) # <<>> THEN 10 ELSE 0)
  + (IF Strip(Get(product, "price")) # <<>> THEN 5 ELSE 0)
  + (IF ImageOf(product) # <<>> THEN 10 ELSE 0)
  + (IF Strip(Get(product, "product_href")) # <<>> THEN 3 ELSE 0)
  + (IF Strip(Get(product, "description")) # <<>> THEN 2 ELSE 0)

\* line 92: the row is kept when name, price or image is non-blank
KeepsRow(p) ==
    \/ Strip(Get(p, "name")) # <<>>
    \/ Strip(Get(p, "price")) # <<>>
    \/ ImageOf(p) # <<>>

valid_products_skipfirst(products) ==
    SelectSeq(SliceFrom(products, 1), KeepsRow)

\* first pass of _clean_products
valid_products(products) == SelectSeq(products, KeepsRow)

\* lines 101-113: the dedup key of a record
DedupKey(product) ==
    LET name == Strip(Get(product, "name"))
        href == Strip(Get(product, "product_href"))
    IN  IF name # <<>> THEN _normalize_name(name)
        ELSE IF href # <<>> THEN Strip(Lower(href))
        ELSE SliceTo(Lower(Strip(Get(product, "price")) \o <<"_">> \o ImageOf(product)),
                     KeyTrunc)

\* position of key in the insertion-ordered dict, 0 when absent
KeyIndex(groups, key) ==
    IF \E i \in 1..Len(groups) : groups[i].key = key
    THEN CHOOSE i \in 1..Len(groups) : groups[i].key = key
    ELSE 0

GroupStepAppend(groups, product) ==
    LET key == DedupKey(product)
    IN  IF key = <<>> THEN groups
        ELSE Append(groups, [key |-> key, product |-> product])

GroupStepLast(groups, product) ==
    LET key == DedupKey(product)
        i == KeyIndex(groups, key)
    IN  IF key = <<>> THEN groups
        ELSE IF i = 0 THEN Append(groups, [key |-> key, product |-> product])
        ELSE IF _score_product_completeness(product)
                  >= _score_product_completeness(groups[i].product)
             THEN [groups EXCEPT ![i].product = product]
             ELSE groups

\* lines 115-125: one iteration of the grouping loop
GroupStep(groups, product) ==
    Bind(DedupKey(product), LAMBDA key :
    Bind(KeyIndex(groups, key), LAMBDA i :
        IF key = <<>> THEN groups
        ELSE IF i = 0 THEN Append(groups, [key |-> key, product |-> product])
        ELSE IF _score_product_completeness(product)
                  > _score_product_completeness(groups[i].product)
             THEN [groups EXCEPT ![i].product = product]
             ELSE groups))

\* the loop of line 100
RECURSIVE GroupAll(_, _)
GroupAll(groups, products) ==
    IF products = <<>> THEN groups
    ELSE Bind(Head(products), LAMBDA product :
         Bind(GroupStep(groups, product), LAMBDA next :
              GroupAll(next, Tail(products))))

\* second pass of _clean_products
product_groups(valid) == Bind(valid, LAMBDA v : GroupAll(<<>>, v))

_clean_products(products) ==
    Bind(product_groups(valid_products(products)), LAMBDA groups :
         [i \in 1..Len(groups) |-> groups[i].product])

-----------------------------------------------------------------------------
(* Link discovery, src/crawler_service.py *)

\* A URL or href is the triple urlparse() splits it into; "" is the empty href.
Url(scheme, netloc, path) == [scheme |-> scheme, netloc |-> netloc, path |-> path]
EmptyHref == Url(<<>>, "", "")

sHttp == <<"h","t","t","p">>
sHTTP == <<"H","T","T","P">>
sHttps == <<"h","t","t","p","s">>

\* path resolution of urljoin for the one-level paths used here: every base
\* path has directory "/"
JoinPath(bpath, path) ==
    CASE path = "" -> bpath
      [] path = "a" -> "/a"
      [] path = "b" -> "/b"
      [] OTHER -> path

\* urljoin(base_url, link): urlparse lower-cases the scheme; a link of another
\* scheme and the empty link come back as they were written
_normalize_url(base_url, link) ==
    IF link = EmptyHref THEN base_url
    ELSE LET bscheme == Lower(base_url.scheme)
             scheme == IF link.scheme = <<>> THEN bscheme ELSE Lower(link.scheme)
         IN  IF scheme # bscheme THEN link
             ELSE IF link.netloc # "" THEN Url(scheme, link.netloc, link.path)
             ELSE Url(scheme, base_url.netloc, JoinPath(base_url.path, link.path))

_is_same_domain(base_url, candidate) ==
    IF candidate.scheme = <<>> THEN TRUE
    ELSE base_url.netloc = candidate.netloc

AddUrlNoSeen(acc, home_url, u) ==
    LET normalized == _normalize_url(home_url, u)
    IN  IF _is_same_domain(home_url, normalized)
        THEN [urls |-> Append(acc.urls, normalized), seen |-> acc.seen \cup {normalized}]
        ELSE acc

\* lines 133-137; acc is the pair of locals urls and seen
add_url(acc, home_url, u) ==
    LET normalized == _normalize_url(home_url, u)
    IN  IF normalized \notin acc.seen /\ _is_same_domain(home_url, normalized)
        THEN [urls |-> Append(acc.urls, normalized), seen |-> acc.seen \cup {normalized}]
        ELSE acc

\* lines 147-153: the loop over the internal links, left at the first
\* iteration that finds the budget reached
RECURSIVE LinkLoop(_, _, _, _)
LinkLoop(acc, home_url, links, max_pages) ==
    IF links = <<>> THEN acc
    ELSE IF Head(links) = EmptyHref
         THEN LinkLoop(acc, home_url, Tail(links), max_pages)
         ELSE Bind(add_url(acc, home_url, Head(links)), LAMBDA next :
                   IF Len(next.urls) >= max_pages THEN next
                   ELSE LinkLoop(next, home_url, Tail(links), max_pages))

CollectIgnoreSuccess(home_url, result, max_pages) ==
    LinkLoop(add_url([urls |-> <<>>, seen |-> {}], home_url, home_url),
             home_url, result.internal, max_pages).urls

\* lines 130-155: the list collected before the final slice
CollectUrls(home_url, result, max_pages) ==
    LET first == add_url([urls |-> <<>>, seen |-> {}], home_url, home_url)
    IN  IF result.success
        THEN LinkLoop(first, home_url, result.internal, max_pages).urls
        ELSE first.urls

DiscoverNoSlice(home_url, result, max_pages) ==
    CollectUrls(home_url, result, max_pages)

\* result is what crawler.arun returned for the seed page
_discover_links(home_url, result, max_pages) ==
    SliceTo(CollectUrls(home_url, result, max_pages), max_pages)

Seeds == {Url(sHttp, "shop", "/"), Url(sHTTP, "shop", "/"), Url(sHttp, "shop", "/a")}

Hrefs ==
    {EmptyHref, Url(<<>>, "", "/a"), Url(<<>>, "", "b"), Url(sHttp, "shop", "/a"),
     Url(sHttp, "shop", "/"), Url(sHttp, "other", "/a"), Url(<<>>, "other", "/b"),
     Url(sHttps, "shop", "/a")}

LinkLists == UNION {[1..n -> Hrefs] : n \in 0..MaxLinks}

-----------------------------------------------------------------------------
(* Strings and records used as inputs *)

sBlank == <<" ">>
sMilk == <<"M","i","l","k">>
sMILK == <<"M","I","L","K">>
sTea == <<"T","e","a">>
sPic == <<"P","i","c","t","u","r","e"," ","o","f">>
sPicMilk == sPic \o <<" ">> \o sMilk
sPadMilk == <<" ","m","i","l","k"," ">>
s80 == <<"8","0">>
sImgA == <<"a",".","j","p","g">>
sImgB == <<"B",".","j","p","g">>
sHrefM == <<"/","M">>
sHrefm == <<"/","m"," ">>
sDesc == <<"d">>
sLong == Rep("9", KeyTrunc)

\* the two records of the worked example, then records that exercise each
\* branch of the key derivation, the filter and the tie rule
RecFull == [name |-> sPicMilk, price |-> s80, image_url |-> sImgA]
RecTeaser == [name |-> sMilk, price |-> <<>>, image_url |-> <<>>]
RecPad == [name |-> sPadMilk, product_href |-> sHrefM, description |-> sDesc]
RecLegacy == [name |-> sMILK, price |-> s80, image |-> sImgA]
RecTea == [name |-> sTea, price |-> s80]
RecHref == [product_href |-> sHrefM, price |-> s80]
RecHrefImg == [product_href |-> sHrefm, image_url |-> sImgA]
RecPrice == [price |-> s80, source_page |-> Url(sHttp, "shop", "/b")]
RecLongA == [price |-> sLong, image_url |-> sImgA]
RecLongB == [price |-> sLong, image_url |-> sImgB, description |-> sDesc]
RecShadow == [image_url |-> sBlank, image |-> sImgA]
RecPicOnly == [name |-> sPic, price |-> s80]
RecBlank == [name |-> sBlank, description |-> sDesc]

RecordPool ==
    {RecFull, RecTeaser, RecPad, RecLegacy, RecTea, RecHref, RecHrefImg, RecPrice,
     RecLongA, RecLongB, RecShadow, RecPicOnly, RecBlank}

RawLists == UNION {[1..n -> RecordPool] : n \in 0..MaxRaw}

\* every record over the scored fields with values "", " " and "x"
ScoredFields == {"name", "price", "image_url", "image", "product_href", "description"}
FieldValues == {<<>>, sBlank, <<"x">>}
SmallRecords == UNION {[D -> FieldValues] : D \in SUBSET ScoredFields}

NonBlank(s) == Strip(s) # <<>>

\* dict with one more key
WithField(p, f, v) == [x \in DOMAIN p \cup {f} |-> IF x = f THEN v ELSE p[x]]

-----------------------------------------------------------------------------
(* State shared by every specification: the registry before any submission *)

Jobs == {"j1", "j2"}
NoLocals == [homepage |-> EmptyHref, max_pages |-> 0, urls |-> <<>>, pending |-> {},
             completed |-> 0, failures |-> 0, products |-> <<>>]

RegistryEmpty ==
    /\ CRAWL_RESULTS = <<>>
    /\ CRAWL_PROGRESS = <<>>
    /\ pc = [j \in Jobs |-> "idle"]
    /\ job = [j \in Jobs |-> NoLocals]
    /\ resp = [kind |-> "none"]

jobVars == <<CRAWL_RESULTS, CRAWL_PROGRESS, pc, job, resp>>

-----------------------------------------------------------------------------
(* SpecClean: _clean_products applied to a raw record list, then to its own
   output, as the result endpoints do on every read *)

InitClean ==
    /\ RegistryEmpty
    /\ phase = "input"
    /\ arg \in RawLists
    /\ ret = <<>>

CleanOnce ==
    /\ phase = "input"
    /\ phase' = "cleaned"
    /\ ret' = [once |-> _clean_products(arg)]
    /\ UNCHANGED <<arg, jobVars>>

CleanTwice ==
    /\ phase = "cleaned"
    /\ phase' = "recleaned"
    /\ ret' = [once |-> ret.once, twice |-> _clean_products(ret.once)]
    /\ UNCHANGED <<arg, jobVars>>

NextClean == CleanOnce \/ CleanTwice

SpecClean == InitClean /\ [][NextClean]_vars

-----------------------------------------------------------------------------
(* SpecRecord: the per-record steps, the filter and the completeness score *)

InitRecord ==
    /\ RegistryEmpty
    /\ phase = "input"
    /\ arg \in SmallRecords
    /\ ret = <<>>

\* the filter pass on a one-record list
FilterRecord ==
    /\ phase = "input"
    /\ phase' = "filtered"
    /\ ret' = valid_products(<<arg>>)
    /\ UNCHANGED <<arg, jobVars>>

\* score the record before and after a non-blank field is added to it
ScoreWithField ==
    /\ phase = "input"
    /\ \E f \in ScoredFields \ DOMAIN arg :
         \E v \in {x \in FieldValues : NonBlank(x)} :
            ret' = [field |-> f,
                    before |-> _score_product_completeness(arg),
                    after |-> _score_product_completeness(WithField(arg, f, v))]
    /\ phase' = "scored"
    /\ UNCHANGED <<arg, jobVars>>

NextRecord == FilterRecord \/ ScoreWithField

SpecRecord == InitRecord /\ [][NextRecord]_vars

-----------------------------------------------------------------------------
(* SpecDiscover: _discover_links on every seed, fetch outcome and budget *)

InitDiscover ==
    /\ RegistryEmpty
    /\ phase = "input"
    /\ arg \in [home_url : Seeds,
                result : [success : BOOLEAN, internal : LinkLists],
                max_pages : 0..MaxBudget]
    /\ ret = <<>>

Discover ==
    /\ phase = "input"
    /\ phase' = "discovered"
    /\ ret' = _discover_links(arg.home_url, arg.result, arg.max_pages)
    /\ UNCHANGED <<arg, jobVars>>

NextDiscover == Discover

SpecDiscover == InitDiscover /\ [][NextDiscover]_vars

-----------------------------------------------------------------------------
(* Job registry and progress tracking, src/app.py *)

MaxJobBudget == 2   \* largest max_pages a job is submitted with

Terminal == {"completed", "error"}

Snapshot(status, progress, total, current) ==
    [status |-> status, progress |-> progress, total |-> total, current |-> current]

UnknownSnapshot == Snapshot("unknown", 0, 0, 0)

PutOnly(d, k, v) == [x \in {k} |-> v]

\* d[k] = v on a dict
Put(d, k, v) == [x \in DOMAIN d \cup {k} |-> IF x = k THEN v ELSE d[x]]

\* d.get(k, default)
GetOr(d, k, default) == IF k \in DOMAIN d THEN d[k] ELSE default

\* int(current / total * 100) for 0 <= current and 0 < total.  The float
\* product falls just below the exact quotient for these pairs (the only ones
\* with total <= 100), and int() then truncates to one less.
FloatShort == {<<29, 50>>, <<29, 100>>, <<57, 100>>, <<58, 100>>}
IntPercent(current, total) ==
    ((current * 100) \div total) - (IF <<current, total>> \in FloatShort THEN 1 ELSE 0)

UpdateStatusStale(progress, crawl_id, current, total, status) ==
    IF crawl_id \in DOMAIN progress
    THEN Put(progress, crawl_id,
             Snapshot(progress[crawl_id].status,
                      IF total > 0 THEN IntPercent(current, total) ELSE 0,
                      total, current))
    ELSE progress

UpdateKeepPercent(progress, crawl_id, current, total, status) ==
    IF crawl_id \in DOMAIN progress
    THEN Put(progress, crawl_id,
             Snapshot(status, progress[crawl_id].progress, total, current))
    ELSE progress

UpdateRemaining(progress, crawl_id, current, total, status) ==
    IF crawl_id \in DOMAIN progress
    THEN Put(progress, crawl_id,
             Snapshot(status, IF total > 0 THEN IntPercent(current, total) ELSE 0,
                      total, total - current))
    ELSE progress

\* the value of CRAWL_PROGRESS after _update_progress(crawl_id, current, total, status)
_update_progress(progress, crawl_id, current, total, status) ==
    IF crawl_id \in DOMAIN progress
    THEN Put(progress, crawl_id,
             Snapshot(status, IF total > 0 THEN IntPercent(current, total) ELSE 0,
                      total, current))
    ELSE progress

\* crawl_site_async lines 206-224: the records one page result contributes
SetDefault(item, f, v) == IF f \in DOMAIN item THEN item ELSE WithField(item, f, v)

\* a JSON value that is not an object is written [nondict |-> text]
NonDict == [nondict |-> <<"7">>]

\* isinstance(item, dict)
IsDict(item) == "nondict" \notin DOMAIN item

ExtractItemsNoCheck(result) ==
    IF result.kind # "list" THEN <<>>
    ELSE Bind(SelectSeq(result.items, IsDict), LAMBDA dicts :
              [i \in 1..Len(dicts) |-> SetDefault(dicts[i], "source_page", result.url)])

ExtractItems(result) ==
    IF ~result.success \/ result.kind = "empty" THEN <<>>
    ELSE IF result.kind = "badjson" THEN <<>>
    ELSE IF result.kind # "list" THEN <<>>
    ELSE Bind(SelectSeq(result.items, IsDict), LAMBDA dicts :
              [i \in 1..Len(dicts) |-> SetDefault(dicts[i], "source_page", result.url)])

\* what the external fetcher may answer; the items carry fields of the
\* extraction schema only (build_product_schema)
PageContents ==
    {[success |-> FALSE, kind |-> "empty", items |-> <<>>],
     [success |-> TRUE, kind |-> "list", items |-> <<RecTeaser, RecFull>>],
     [success |-> TRUE, kind |-> "list", items |-> <<RecTea>>]}

PageResult(url, c) ==
    [url |-> url, success |-> c.success, kind |-> c.kind, items |-> c.items]

JobSeeds == {Url(sHttp, "shop", "/")}

\* the seed page is unreachable, or reports one same-site link twice (once
\* relative) and an external link
SeedFetches ==
    {[success |-> FALSE, internal |-> <<>>],
     [success |-> TRUE,
      internal |-> <<Url(<<>>, "", "/a"), Url(sHttp, "other", "/a"), Url(<<>>, "", "a")>>]}

ErrorText == "exception"

(* start_crawl, lines 174-193: a blank homepage redirects without a job;
   otherwise a fresh crawl_id is drawn, the thread is started and the id is
   returned to the client.  The thread has not run any statement yet. *)
StartCrawl(j) ==
    /\ pc[j] = "idle"
    /\ \E homepage \in JobSeeds \cup {EmptyHref}, max_pages \in 0..MaxJobBudget :
          /\ homepage # EmptyHref
          /\ job' = [job EXCEPT ![j] = [NoLocals EXCEPT !.homepage = homepage,
                                                        !.max_pages = max_pages]]
    /\ pc' = [pc EXCEPT ![j] = "begin"]
    /\ UNCHANGED <<CRAWL_RESULTS, CRAWL_PROGRESS, resp, phase, arg, ret>>

(* _crawl_in_background line 135 *)
BeginTask(j) ==
    /\ pc[j] = "begin"
    /\ CRAWL_PROGRESS' = Put(CRAWL_PROGRESS, j,
                             Snapshot("discovering", 0, job[j].max_pages, 0))
    /\ pc' = [pc EXCEPT ![j] = "discover"]
    /\ UNCHANGED <<CRAWL_RESULTS, job, resp, phase, arg, ret>>

(* crawl_site_with_progress, called at lines 143-147: discovery, as
   crawl_site_async lines 194-197 *)
DiscoverStep(j) ==
    /\ pc[j] = "discover"
    /\ \E result \in SeedFetches :
          LET urls == _discover_links(job[j].homepage, result, job[j].max_pages)
          IN  /\ job' = [job EXCEPT ![j].urls = urls, ![j].pending = SeqToSet(urls)]
              /\ pc' = [pc EXCEPT ![j] = IF urls = <<>> THEN "clean" ELSE "fetch"]
    /\ UNCHANGED <<CRAWL_RESULTS, CRAWL_PROGRESS, resp, phase, arg, ret>>

(* crawl_site_with_progress: one URL resolves, in any order; its records are
   collected and the progress callback (lines 140-141) fires *)
PageResolved(j) ==
    /\ pc[j] = "fetch"
    /\ \E u \in job[j].pending, c \in PageContents :
          LET done == job[j].completed + 1
          IN  /\ job' = [job EXCEPT
                           ![j].pending = @ \ {u},
                           ![j].completed = done,
                           ![j].failures = IF c.success THEN @ ELSE @ + 1,
                           ![j].products = @ \o ExtractItems(PageResult(u, c))]
              /\ CRAWL_PROGRESS' = _update_progress(CRAWL_PROGRESS, j, done,
                                                    Len(job[j].urls), "fetching")
              /\ pc' = [pc EXCEPT ![j] = IF job[j].pending = {u} THEN "consolidate"
                                                                ELSE "fetch"]
    /\ UNCHANGED <<CRAWL_RESULTS, resp, phase, arg, ret>>

(* crawl_site_with_progress: every URL has resolved; the callback reports
   the consolidating status and the raw records are returned *)
Consolidating(j) ==
    /\ pc[j] = "consolidate"
    /\ CRAWL_PROGRESS' = _update_progress(CRAWL_PROGRESS, j, Len(job[j].urls),
                                          Len(job[j].urls), "consolidating")
    /\ pc' = [pc EXCEPT ![j] = "clean"]
    /\ UNCHANGED <<CRAWL_RESULTS, job, resp, phase, arg, ret>>

(* _crawl_in_background line 149 *)
CleanStep(j) ==
    /\ pc[j] = "clean"
    /\ job' = [job EXCEPT ![j].products = _clean_products(@)]
    /\ pc' = [pc EXCEPT ![j] = "store"]
    /\ UNCHANGED <<CRAWL_RESULTS, CRAWL_PROGRESS, resp, phase, arg, ret>>

StoreResultsSkip(j) ==
    /\ pc[j] = "store"
    /\ pc' = [pc EXCEPT ![j] = "complete"]
    /\ UNCHANGED <<CRAWL_RESULTS, CRAWL_PROGRESS, job, resp, phase, arg, ret>>

(* _crawl_in_background line 150 *)
StoreResults(j) ==
    /\ pc[j] = "store"
    /\ CRAWL_RESULTS' = Put(CRAWL_RESULTS, j, job[j].products)
    /\ pc' = [pc EXCEPT ![j] = "complete"]
    /\ UNCHANGED <<CRAWL_PROGRESS, job, resp, phase, arg, ret>>

CompleteNoStatus(j) ==
    /\ pc[j] = "complete"
    /\ pc' = [pc EXCEPT ![j] = "done"]
    /\ job' = [job EXCEPT ![j] = NoLocals]
    /\ UNCHANGED <<CRAWL_RESULTS, CRAWL_PROGRESS, resp, phase, arg, ret>>

CompleteErrorOnEmpty(j) ==
    /\ pc[j] = "complete"
    /\ CRAWL_PROGRESS' =
         Put(CRAWL_PROGRESS, j,
             IF job[j].products = <<>>
             THEN [status |-> "error", progress |-> 0, total |-> 0, current |-> 0,
                   error |-> ErrorText]
             ELSE Snapshot("completed", 100, Len(job[j].products), Len(job[j].products)))
    /\ pc' = [pc EXCEPT ![j] = "done"]
    /\ job' = [job EXCEPT ![j] = NoLocals]
    /\ UNCHANGED <<CRAWL_RESULTS, resp, phase, arg, ret>>

(* _crawl_in_background line 151; the thread ends *)
Complete(j) ==
    /\ pc[j] = "complete"
    /\ CRAWL_PROGRESS' = Put(CRAWL_PROGRESS, j,
                             Snapshot("completed", 100, Len(job[j].products),
                                      Len(job[j].products)))
    /\ pc' = [pc EXCEPT ![j] = "done"]
    /\ job' = [job EXCEPT ![j] = NoLocals]
    /\ UNCHANGED <<CRAWL_RESULTS, resp, phase, arg, ret>>

RaiseUncaught(j) ==
    /\ pc[j] \in {"discover", "fetch", "consolidate", "clean"}
    /\ pc' = [pc EXCEPT ![j] = "crashed"]
    /\ job' = [job EXCEPT ![j] = NoLocals]
    /\ UNCHANGED <<CRAWL_RESULTS, CRAWL_PROGRESS, resp, phase, arg, ret>>

(* _crawl_in_background lines 152-153: an exception raised by the import at
   line 138, by the crawl or by _clean_products; the thread ends *)
Raise(j) ==
    /\ pc[j] \in {"discover", "fetch", "consolidate", "clean"}
    /\ CRAWL_PROGRESS' = Put(CRAWL_PROGRESS, j,
                             [status |-> "error", progress |-> 0, total |-> 0,
                              current |-> 0, error |-> ErrorText])
    /\ pc' = [pc EXCEPT ![j] = "done"]
    /\ job' = [job EXCEPT ![j] = NoLocals]
    /\ UNCHANGED <<CRAWL_RESULTS, resp, phase, arg, ret>>

\* a client polls the ids it was given by start_crawl, or an id nobody issued
NoJob == "nojob"
Known(id) == IF id = NoJob THEN TRUE ELSE pc[id] # "idle"

ApiProgressBodyPending(id) ==
    GetOr(CRAWL_PROGRESS, id, Snapshot("discovering", 0, 0, 0))

\* api_progress lines 206-215: the JSON body
ApiProgressBody(id) ==
    LET progress == GetOr(CRAWL_PROGRESS, id, UnknownSnapshot)
    IN  IF progress.status = "completed"
        THEN [x \in DOMAIN progress \cup {"redirect"} |->
                 IF x = "redirect" THEN id ELSE progress[x]]
        ELSE progress

\* api_results lines 234-241: the JSON body
ApiResultsBody(id) ==
    LET products == _clean_products(GetOr(CRAWL_RESULTS, id, <<>>))
    IN  [crawl_id |-> id, total |-> Len(products), products |-> products]

ApiProgress(id) ==
    /\ Known(id)
    /\ resp' = [kind |-> "progress", id |-> id, body |-> ApiProgressBody(id)]
    /\ UNCHANGED <<CRAWL_RESULTS, CRAWL_PROGRESS, pc, job, phase, arg, ret>>

ApiResults(id) ==
    /\ Known(id)
    /\ resp' = [kind |-> "results", id |-> id, body |-> ApiResultsBody(id)]
    /\ UNCHANGED <<CRAWL_RESULTS, CRAWL_PROGRESS, pc, job, phase, arg, ret>>

Init ==
    /\ RegistryEmpty
    /\ phase = "jobs"
    /\ arg = <<>>
    /\ ret = <<>>

Next ==
    \/ \E j \in Jobs : StartCrawl(j)
    \/ \E j \in Jobs : BeginTask(j)
    \/ \E j \in Jobs : DiscoverStep(j)
    \/ \E j \in Jobs : PageResolved(j)
    \/ \E j \in Jobs : Consolidating(j)
    \/ \E j \in Jobs : CleanStep(j)
    \/ \E j \in Jobs : StoreResults(j)
    \/ \E j \in Jobs : Complete(j)
    \/ \E j \in Jobs : Raise(j)
    \/ \E id \in Jobs \cup {NoJob} : ApiProgress(id)
    \/ \E id \in Jobs \cup {NoJob} : ApiResults(id)

Spec == Init /\ [][Next]_vars

\* the steps of the background thread of job j (threading.Thread, line 187)
ThreadStep(j) ==
    \/ BeginTask(j)
    \/ DiscoverStep(j)
    \/ PageResolved(j)
    \/ Consolidating(j)
    \/ CleanStep(j)
    \/ StoreResults(j)
    \/ Complete(j)
    \/ Raise(j)

\* the submissions and the threads, without the polling readers, which
\* write nothing but resp
NextLive ==
    \/ \E j \in Jobs : StartCrawl(j)
    \/ \E j \in Jobs : ThreadStep(j)

\* every started thread keeps being scheduled, and every call to the
\* fetcher returns or raises
SpecLive == Init /\ [][NextLive]_vars /\ \A j \in Jobs : WF_vars(ThreadStep(j))

-----------------------------------------------------------------------------
(* SpecCrawl: crawl_site_async on every seed fetch, budget and batch of page
   results *)

MaxCrawlBudget == 2   \* largest max_pages crawl_site_async is called with

\* the seed page is unreachable, or reports two same-site links
CrawlSeedFetches ==
    {[success |-> FALSE, internal |-> <<>>],
     [success |-> TRUE, internal |-> <<Url(<<>>, "", "/a"), Url(<<>>, "", "b")>>]}

\* what arun_many may report for one URL: a failure without or with content,
\* and a success with no content, unparseable content, a JSON object, or a
\* JSON list (empty, of objects, or with a non-object among them)
CrawlContents ==
    {[success |-> FALSE, kind |-> "empty", items |-> <<>>],
     [success |-> FALSE, kind |-> "list", items |-> <<RecFull>>],
     [success |-> TRUE, kind |-> "empty", items |-> <<>>],
     [success |-> TRUE, kind |-> "badjson", items |-> <<>>],
     [success |-> TRUE, kind |-> "object", items |-> <<RecFull>>],
     [success |-> TRUE, kind |-> "list", items |-> <<>>],
     [success |-> TRUE, kind |-> "list", items |-> <<RecTeaser, RecFull>>],
     [success |-> TRUE, kind |-> "list", items |-> <<RecTea, NonDict>>]}

\* the result lists arun_many may return for urls: one result per URL, in
\* any order
Batches(urls) ==
    LET n == Len(urls)
        orders == {o \in [1..n -> 1..n] : \A a, b \in 1..n : a # b => o[a] # o[b]}
    IN  {[i \in 1..n |-> PageResult(urls[o[i]], c[i])] :
            o \in orders, c \in [1..n -> CrawlContents]}

\* the loop of lines 206-224 over the whole batch
RECURSIVE CollectProducts(_)
CollectProducts(results) ==
    IF results = <<>> THEN <<>>
    ELSE ExtractItems(Head(results)) \o CollectProducts(Tail(results))

InitCrawl ==
    /\ RegistryEmpty
    /\ phase = "called"
    /\ arg \in [home_url : JobSeeds, result : CrawlSeedFetches,
                max_pages : 0..MaxCrawlBudget]
    /\ ret = <<>>

\* lines 193-197: discovery; an empty URL list returns at once
CrawlDiscover ==
    /\ phase = "called"
    /\ LET urls == _discover_links(arg.home_url, arg.result, arg.max_pages)
       IN  IF urls = <<>>
           THEN /\ phase' = "returned"
                /\ ret' = [urls |-> urls, results |-> <<>>, products |-> <<>>]
           ELSE /\ phase' = "dispatched"
                /\ ret' = [urls |-> urls]
    /\ UNCHANGED <<arg, jobVars>>

\* lines 200-226: arun_many answers, the results are gone through and the
\* collected records are returned
CrawlCollect ==
    /\ phase = "dispatched"
    /\ \E results \in Batches(ret.urls) :
          ret' = [urls |-> ret.urls, results |-> results,
                  products |-> CollectProducts(results)]
    /\ phase' = "returned"
    /\ UNCHANGED <<arg, jobVars>>

NextCrawl ==
    \/ CrawlDiscover
    \/ CrawlCollect

SpecCrawl == InitCrawl /\ [][NextCrawl]_vars

-----------------------------------------------------------------------------
(* Properties of _clean_products *)

\* indices of the records of list q whose dedup key is k
GroupOf(q, k) == {i \in 1..Len(q) : DedupKey(q[i]) = k}

TopScore(q, k) ==
    CHOOSE m \in {_score_product_completeness(q[i]) : i \in GroupOf(q, k)} :
        \A i \in GroupOf(q, k) : _score_product_completeness(q[i]) <= m

\* the first record of the group that reaches the group's highest score
BestOf(q, k) ==
    LET top == {i \in GroupOf(q, k) : _score_product_completeness(q[i]) = TopScore(q, k)}
    IN  q[CHOOSE i \in top : \A h \in top : i <= h]

KeepsBestOf(q, out, k) ==
    /\ Cardinality(GroupOf(out, k)) = 1
    /\ \A i \in GroupOf(out, k) : out[i] = BestOf(q, k)

\* C3 as stated: every dedup key group of the records that reach the grouping
\* pass leaves exactly one record in the output, the highest-scoring one, the
\* first on a tie.
C3_EveryGroupKeepsBest ==
    phase = "cleaned" =>
        LET valid == valid_products(arg)
        IN  \A k \in {DedupKey(valid[i]) : i \in 1..Len(valid)} :
                KeepsBestOf(valid, ret.once, k)

\* C3 amended: every group of records that pass the filter and share a
\* non-empty dedup key leaves exactly one record in the output, the
\* highest-scoring one of the group, the first of them on a tie.
C3_NonEmptyGroupKeepsBest ==
    phase = "cleaned" =>
        LET valid == valid_products(arg)
        IN  \A k \in {DedupKey(valid[i]) : i \in 1..Len(valid)} \ {<<>>} :
                KeepsBestOf(valid, ret.once, k)

\* a group whose first record is outscored by a later one, and a second
\* group whose top score is shared by two records
C3_Witness ==
    /\ phase = "cleaned"
    /\ arg = <<RecTeaser, RecFull, RecLegacy>>
    /\ ret.once = <<RecFull>>

\* C5: cleaning the cleaned list again yields the same set of records.
C5_CleanIdempotent ==
    phase = "recleaned" => SeqToSet(ret.twice) = SeqToSet(ret.once)

\* the first cleaning dropped a filtered row and merged a duplicate
C5_Witness ==
    /\ phase = "recleaned"
    /\ arg = <<RecBlank, RecTeaser, RecFull>>
    /\ ret.once = <<RecFull>>
    /\ ret.twice = <<RecFull>>

-----------------------------------------------------------------------------
(* Properties of the filter and the completeness score *)

\* the three fields of the filter rule as the claim reads them: image is
\* populated when image_url or the legacy image field is non-blank
AllThreeBlank(p) ==
    /\ ~NonBlank(Get(p, "name"))
    /\ ~NonBlank(Get(p, "price"))
    /\ ~NonBlank(Get(p, "image_url"))
    /\ ~NonBlank(Get(p, "image"))

\* C4: the filter drops a record exactly when name, price and image are all
\* blank after trimming, image being either image_url or the legacy image.
C4_FilterDropsExactlyBlank ==
    phase = "filtered" => ((ret = <<>>) <=> AllThreeBlank(arg))

\* C6: adding a scored field with a non-blank value to a record that lacks
\* it never lowers the completeness score.
C6_ScoreMonotone ==
    phase = "scored" => ret.after >= ret.before

\* the image field is added to a record that already has a name and a price
C6_Witness ==
    /\ phase = "scored"
    /\ ret.field = "image_url"
    /\ ret.before = 15
    /\ ret.after = 25

-----------------------------------------------------------------------------
(* Properties of the job registry *)

ProgressOf(id) == GetOr(CRAWL_PROGRESS, id, UnknownSnapshot)

DistinctKeys(products) ==
    \A a, b \in 1..Len(products) :
        a # b => DedupKey(products[a]) # DedupKey(products[b])

\* C2: in every reachable state the dedup keys of the entries of a job's
\* stored result list are pairwise distinct.
C2_StoredKeysDistinct ==
    \A j \in DOMAIN CRAWL_RESULTS : DistinctKeys(CRAWL_RESULTS[j])

\* a job stored two products after one page reported the same product twice
\* and another page a different one
C2_Witness ==
    \E j \in DOMAIN CRAWL_RESULTS :
        /\ Len(CRAWL_RESULTS[j]) = 2
        /\ \E a, b \in 1..2 : /\ DedupKey(CRAWL_RESULTS[j][a]) = DedupKey(RecFull)
                                /\ DedupKey(CRAWL_RESULTS[j][b]) = DedupKey(RecTea)

\* floor(current / total * 100), 0 when total is 0
FloorPercent(current, total) == IF total = 0 THEN 0 ELSE (current * 100) \div total

C8_CurrentNonDecreasing ==
    [][\A j \in DOMAIN CRAWL_PROGRESS :
          (CRAWL_PROGRESS[j].status \notin Terminal
             /\ CRAWL_PROGRESS'[j].status \notin Terminal)
          => CRAWL_PROGRESS'[j].current >= CRAWL_PROGRESS[j].current]_vars

\* the count of a job has moved from 0 to 1 to 2
C8_Witness ==
    \E j \in DOMAIN CRAWL_PROGRESS :
        /\ CRAWL_PROGRESS[j].status = "fetching"
        /\ CRAWL_PROGRESS[j].current = 2

\* C9: a progress query for an identifier that start_crawl has returned never
\* answers unknown.
C9_SubmittedNeverUnknown ==
    (resp.kind = "progress" /\ resp.id \in Jobs) => resp.body.status # "unknown"

\* C10: no results query answers a non-empty list while the progress
\* snapshot of the same identifier shows a status other than completed.
C10_ResultsEmptyUntilCompleted ==
    \A id \in Jobs \cup {NoJob} :
        ApiResultsBody(id).products # <<>> => ProgressOf(id).status = "completed"

\* C11: a progress query for an identifier that was never submitted answers
\* unknown with current = 0 and total = 0, a results query for it answers an
\* empty list, and neither leaves an entry for it in the registry.
C11_UnknownJobSentinels ==
    /\ NoJob \notin DOMAIN CRAWL_PROGRESS
    /\ NoJob \notin DOMAIN CRAWL_RESULTS
    /\ (resp.kind = "progress" /\ resp.id = NoJob) =>
          /\ resp.body.status = "unknown"
          /\ resp.body.current = 0
          /\ resp.body.total = 0
    /\ (resp.kind = "results" /\ resp.id = NoJob) =>
          /\ resp.body.products = <<>>
          /\ resp.body.total = 0

\* the unissued identifier is polled while the registry holds a finished job
C11_Witness ==
    /\ resp.kind = "progress"
    /\ resp.id = NoJob
    /\ \E j \in DOMAIN CRAWL_RESULTS : CRAWL_RESULTS[j] # <<>>

\* the positions of the background task at which an exception can be raised
Raising == {"discover", "fetch", "consolidate", "clean"}

\* C12: a step in which the background task of a job raises ends the task
\* normally with the job's snapshot in status error carrying the message,
\* and a snapshot carries an error detail only when its status is error.
C12_ExceptionBecomesError ==
    [][/\ \A j \in Jobs :
            (pc[j] \in Raising /\ pc'[j] \notin Raising \cup {"store"}) =>
                /\ pc'[j] = "done"
                /\ j \in DOMAIN CRAWL_PROGRESS'
                /\ CRAWL_PROGRESS'[j].status = "error"
                /\ "error" \in DOMAIN CRAWL_PROGRESS'[j]
                /\ CRAWL_PROGRESS'[j].error = ErrorText
       /\ \A j \in DOMAIN CRAWL_PROGRESS' :
            "error" \in DOMAIN CRAWL_PROGRESS'[j] => CRAWL_PROGRESS'[j].status = "error"]_vars

\* a job failed after one of its two pages had resolved
C12_Witness ==
    \E j \in DOMAIN CRAWL_PROGRESS :
        /\ pc[j] = "done"
        /\ CRAWL_PROGRESS[j].status = "error"
        /\ CRAWL_PROGRESS[j].error = ErrorText
        /\ resp.kind = "progress"
        /\ resp.id = j
        /\ resp.body.status = "fetching"

\* every page of the job has resolved and every one reported failure
AllPagesFailed(j) ==
    /\ job[j].urls # <<>>
    /\ job[j].pending = {}
    /\ job[j].failures = Len(job[j].urls)

\* C13: a job all of whose page fetches failed carries no record into
\* consolidation, and a job that finishes its task with an empty consolidated
\* list ends in status completed with an empty stored list, not in error.
C13_AllFailedCompletesEmpty ==
    [][\A j \in Jobs :
          /\ (AllPagesFailed(j) /\ pc[j] \in {"consolidate", "clean", "store", "complete"})
                => job[j].products = <<>>
          /\ (pc[j] = "complete" /\ pc'[j] = "done" /\ job[j].products = <<>>) =>
                /\ CRAWL_PROGRESS'[j].status = "completed"
                /\ CRAWL_PROGRESS'[j].total = 0
                /\ "error" \notin DOMAIN CRAWL_PROGRESS'[j]
                /\ CRAWL_RESULTS'[j] = <<>>]_vars

\* both pages of a job failed and the job is about to write its final status
C13_Witness ==
    \E j \in Jobs :
        /\ pc[j] = "complete"
        /\ Len(job[j].urls) = 2
        /\ AllPagesFailed(j)
        /\ CRAWL_RESULTS[j] = <<>>

-----------------------------------------------------------------------------
(* Further properties of _discover_links *)

\* the seed URL as urljoin(seed, seed) writes it: scheme in lower case
WrittenBack(u) == Url(Lower(u.scheme), u.netloc, u.path)

MaxDupLinks == 5    \* longest list of links reported by the seed page
MaxDupBudget == 5   \* largest page budget

DupSeed == Url(sHttp, "shop", "/")

DupHrefs ==
    {Url(<<>>, "", "/a"), Url(sHttp, "shop", "/a"), Url(<<>>, "", "b"),
     Url(sHttps, "shop", "/a"), Url(sHttp, "other", "/a")}

DupLinkLists == UNION {[1..n -> DupHrefs] : n \in 0..MaxDupLinks}

InitDup ==
    /\ RegistryEmpty
    /\ phase = "input"
    /\ arg \in [home_url : {DupSeed},
                result : [success : {TRUE}, internal : DupLinkLists],
                max_pages : 0..MaxDupBudget]
    /\ ret = <<>>

SpecDup == InitDup /\ [][NextDiscover]_vars

\* the same-site URLs of a list in order of first appearance; an entry
\* without href is no link
RECURSIVE FirstAppearances(_, _, _)
FirstAppearances(home_url, links, had) ==
    IF links = <<>> THEN <<>>
    ELSE LET u == _normalize_url(home_url, Head(links))
         IN  IF Head(links) = EmptyHref \/ u \in had \/ u.netloc # home_url.netloc
             THEN FirstAppearances(home_url, Tail(links), had)
             ELSE <<u>> \o FirstAppearances(home_url, Tail(links), had \cup {u})

\* C15: the result for a fetched seed page holds no URL twice and only URLs
\* of the seed's host; it is the seed followed by the same-site links in the
\* order of their first appearance, cut at the budget, so a repeated link
\* takes no place in it.
C15_UniqueSameSiteInOrder ==
    (phase = "discovered" /\ arg.result.success) =>
        /\ \A a, b \in 1..Len(ret) : a # b => ret[a] # ret[b]
        /\ \A a \in 1..Len(ret) : ret[a].netloc = arg.home_url.netloc
        /\ ret = SliceTo(FirstAppearances(arg.home_url,
                                          <<arg.home_url>> \o arg.result.internal, {}),
                         arg.max_pages)

\* budget 5, three unique internal links and two repetitions of them: four
\* URLs come back
C15_Witness ==
    /\ phase = "discovered"
    /\ arg.max_pages = 5
    /\ arg.result.internal =
         <<Url(<<>>, "", "/a"), Url(<<>>, "", "b"), Url(sHttp, "shop", "/a"),
           Url(sHttps, "shop", "/a"), Url(<<>>, "", "b")>>
    /\ ret = <<DupSeed, Url(sHttp, "shop", "/a"), Url(sHttp, "shop", "/b"),
               Url(sHttps, "shop", "/a")>>

-----------------------------------------------------------------------------
(* Properties of the job life cycle *)

\* C16: every submitted job eventually shows a terminal status.
C16_EventuallyTerminal ==
    \A j \in Jobs :
        (pc[j] # "idle") ~> (ProgressOf(j).status \in Terminal)

\* a job has run through both of its pages to the end
C16_Witness ==
    \E j \in Jobs :
        /\ pc[j] = "done"
        /\ ProgressOf(j).status = "completed"
        /\ ProgressOf(j).total = 2

\* the status a poller reads for job j before and after a step
StatusBefore(j) == ProgressOf(j).status
StatusAfter(j) == GetOr(CRAWL_PROGRESS', j, UnknownSnapshot).status

\* the order of the life cycle: a status change is one step forward, or a
\* move from a non-terminal status to error
ForwardMoves ==
    {<<"unknown", "discovering">>, <<"discovering", "fetching">>,
     <<"fetching", "consolidating">>, <<"consolidating", "completed">>,
     <<"discovering", "error">>, <<"fetching", "error">>,
     <<"consolidating", "error">>}

-----------------------------------------------------------------------------
(* Properties of crawl_site_async *)

\* a page that succeeded with well-formed list content
GoodPage(r) == r.success /\ r.kind = "list"

\* the field-maps of the batch: position <<k, i>> is the i-th value of the
\* k-th result, kept when the page is good and the value is a field-map
FieldMaps(results) ==
    UNION {{<<k, i>> : i \in {i \in 1..Len(results[k].items) :
                                    IsDict(results[k].items[i])}} :
              k \in {k \in 1..Len(results) : GoodPage(results[k])}}

\* a field-map with the URL of its page attached
TaggedAt(results, ki) ==
    WithField(results[ki[1]].items[ki[2]], "source_page", results[ki[1]].url)

\* C18: the list crawl_site_async returns holds, as often as they occur, the
\* field-maps of the pages that succeeded with list content, each with
\* source_page equal to the URL of its page, and nothing else; every other
\* page adds no record and does not stop the batch.
C18_ReturnsRecordsOfGoodPages ==
    phase = "returned" =>
        LET results == ret.results
            products == ret.products
            maps == FieldMaps(results)
        IN  /\ Len(products) = Cardinality(maps)
            /\ \A ki \in maps :
                   Cardinality({n \in 1..Len(products) : products[n] = TaggedAt(results, ki)})
                     = Cardinality({h \in maps : TaggedAt(results, h) = TaggedAt(results, ki)})
            /\ \A n \in 1..Len(products) :
                   \E ki \in maps :
                      /\ products[n] = TaggedAt(results, ki)
                      /\ products[n].source_page = results[ki[1]].url

\* a failed page that carries content comes first, a page with a non-object
\* in its list second; only the field-map of the second page is returned
C18_Witness ==
    /\ phase = "returned"
    /\ Len(ret.results) = 2
    /\ ~ret.results[1].success
    /\ ret.results[1].items = <<RecFull>>
    /\ ret.results[2].items = <<RecTea, NonDict>>
    /\ ret.products = <<WithField(RecTea, "source_page", ret.results[2].url)>>

-----------------------------------------------------------------------------
(* Properties of terminal jobs *)

\* C19: once a job's snapshot has status completed or error, no step changes
\* the job's snapshot or its stored result list.
C19_TerminalAbsorbing ==
    [][\A j \in Jobs :
          ProgressOf(j).status \in Terminal =>
              /\ j \in DOMAIN CRAWL_PROGRESS'
              /\ CRAWL_PROGRESS'[j] = CRAWL_PROGRESS[j]
              /\ (j \in DOMAIN CRAWL_RESULTS') = (j \in DOMAIN CRAWL_RESULTS)
              /\ GetOr(CRAWL_RESULTS', j, <<>>) = GetOr(CRAWL_RESULTS, j, <<>>)]_vars

\* one job has completed with products and has been read, while the
\* callback of another job is reporting its first page
C19_Witness ==
    \E j, k \in Jobs :
        /\ ProgressOf(j).status = "completed"
        /\ Len(GetOr(CRAWL_RESULTS, j, <<>>)) >= 1
        /\ resp.kind = "results"
        /\ resp.id = j
        /\ ProgressOf(k).status = "fetching"
        /\ ProgressOf(k).current = 1

\* C20: a job whose status is completed has an entry in CRAWL_RESULTS, the
\* consolidated list its task held when it wrote the entry; the snapshot's
\* current and total equal the length of the entry, and the result endpoint
\* returns that list.  The entry is in place before the status is switched.
C20_CompletedHasFinalResults ==
    \A j \in Jobs :
        /\ pc[j] = "complete" =>
               /\ j \in DOMAIN CRAWL_RESULTS
               /\ CRAWL_RESULTS[j] = job[j].products
               /\ ProgressOf(j).status # "completed"
        /\ ProgressOf(j).status = "completed" =>
               /\ j \in DOMAIN CRAWL_RESULTS
               /\ ProgressOf(j).total = Len(CRAWL_RESULTS[j])
               /\ ProgressOf(j).current = Len(CRAWL_RESULTS[j])
               /\ ApiResultsBody(j).products = CRAWL_RESULTS[j]
               /\ ApiResultsBody(j).total = ProgressOf(j).total

\* a poller has fetched the two products of a completed job
C20_Witness ==
    \E j \in Jobs :
        /\ ProgressOf(j).status = "completed"
        /\ ProgressOf(j).total = 2
        /\ Len(GetOr(CRAWL_RESULTS, j, <<>>)) = 2
        /\ resp.kind = "results"
        /\ resp.id = j
        /\ resp.body.total = 2

=============================================================================
